---------------------------- MODULE Spec2Model ----------------------------
(***************************************************************************)
(* The purchase slice of the template: the Cart model and its pure ops     *)
(* (domain/models/Cart.ts, kept as src/unnamed/part_003), the discount     *)
(* policy (src/policies/purchase/DiscountPolicy.ts) and the checkout       *)
(* workflow (src/workflows/purchase/checkout.ts), an Effect.gen generator  *)
(* whose yield* points are the steps of the state machine below.           *)
(*                                                                         *)
(* Amounts.  USD is a branded number.  A unit price is a whole number of   *)
(* currency units and every USD value is represented here by the integer   *)
(* PercentBase * value, so that total * (percentage / 100) is exact.       *)
(***************************************************************************)
EXTENDS Integers, Sequences, FiniteSets

\* ---------------------------------------------------------------- bounds
MaxItems == 2
MaxPrice == 2
MaxQty == 3
\* the largest capacity of a truck, in kilograms and in cubic meters, and the
\* longest manifest
MaxCapacity == 3
MaxManifest == 3

\* ------------------------------------------------------ program constants
\* checkout.ts:21  `discountDecision.percentage / 100`
PercentBase == 100
\* DiscountPolicy.ts:28  `if (itemCount > 5)`
DiscountThreshold == 5
\* DiscountPolicy.ts:29  `percentage: 10`
DiscountPercentage == 10

\* ---------------------------------------------------------- input domains
\* Cart.ts:14  id: Schema.UUID
CartIds == {"cart-a", "cart-b"}
\* Cart.ts:8  price: MoneySchema -- a non-negative amount of money
Prices == {PercentBase * p : p \in 0..MaxPrice}
\* Cart.ts:9  quantity: Schema.Number -- the schema puts no refinement on it,
\* so zero and negative quantities decode successfully
Quantities == (0 - MaxQty)..MaxQty
\* Cart.ts:5-10  CartItem (id and name are read by no operation)
CartItem == [price : Prices, quantity : Quantities]
\* Cart.ts:13-16  Cart
Cart == [id : CartIds, items : UNION {[1..n -> CartItem] : n \in 0..MaxItems}]

\* the failures the injected PaymentSvc may answer charge with
PaymentErrors == {"CardDeclined", "GatewayTimeout"}
\* a defect raised by the Console service behind Console.log
ConsoleDefect == "ConsoleDefect"

\* full-example.md: branded ids, Kilograms and CubicMeters (plain numbers)
TruckIds == {"truck-1"}
PackageIds == {"pkg-a", "pkg-b"}
Kilograms == 0..(MaxCapacity - 1)
CubicMeters == 0..(MaxCapacity - 1)
\* full-example.md  type Package
Package == [id : PackageIds, weight : Kilograms, volume : CubicMeters]
\* full-example.md  LoadingTruck.capacity
Capacity == [maxWeight : 1..MaxCapacity, maxVolume : 1..MaxCapacity]

VARIABLES
    cart,              \* the argument of checkout
    pc,                \* position of the generator
    checkoutTotal,     \* checkout.ts:13  const total
    discountDecision,  \* checkout.ts:16
    finalAmount,       \* checkout.ts:18
    console,           \* messages the Console service has written
    charges,           \* amounts payment.charge has been called with
    chargeExit,        \* what the payment collaborator answered
    steps,             \* the steps of the workflow entered so far, in order
    exit,              \* the Exit of the checkout effect
    opCall,            \* the last direct call of a domain op or of the policy
    peer,              \* a second checkout invocation, running concurrently
    truck,             \* full-example.md: the LoadingTruck a worker loads
    loadCall           \* the last loadPackage call: its arguments and result

vars == <<cart, pc, checkoutTotal, discountDecision, finalAmount, console, charges,
          chargeExit, steps, exit, opCall, peer, truck, loadCall>>

\* ------------------------------------------------------------------ Money
\* Money.ts is imported by Cart.ts and checkout.ts; its documented contract
\* is used.  USD: the nominal brand constructor of `number & Brand<"USD">`
USD(n) == n

\* Money.ts  add: MoneyOps.add(USD(a), USD(b)) === USD(a + b)
add(a, b) == USD(a + b)

\* ------------------------------------------------------------------- Cart
\* Array.prototype.reduce of Cart.ts:23-26, left to right from `sum`
RECURSIVE reduceTotal(_, _)
reduceTotal(items, sum) ==
    IF items = <<>> THEN sum
    ELSE reduceTotal(Tail(items),
                     add(sum, USD(Head(items).price * Head(items).quantity)))

\* total with the quantity factor forgotten
RECURSIVE totalOfPricesOnly(_)
totalOfPricesOnly(c) ==
    IF c.items = <<>> THEN USD(0)
    ELSE add(totalOfPricesOnly([c EXCEPT !.items = Tail(c.items)]),
             USD(Head(c.items).price))

\* total reduced without its initial value: the first item itself is the
\* accumulator, so only its price is counted
totalWithoutInitialValue(c) ==
    IF c.items = <<>> THEN USD(0)
    ELSE reduceTotal(Tail(c.items), USD(Head(c.items).price))

\* Cart.ts:22-27
total(c) == reduceTotal(c.items, USD(0))

\* isEmpty off by one: a single item still counts as empty
isEmptyUpToOne(c) == Len(c.items) <= 1

\* Cart.ts:29
isEmpty(c) == Len(c.items) = 0

\* ------------------------------------------------------------ the policy
\* Array.prototype.reduce of DiscountPolicy.ts:26, left to right from `acc`
RECURSIVE reduceItemCount(_, _)
reduceItemCount(items, acc) ==
    IF items = <<>> THEN acc
    ELSE reduceItemCount(Tail(items), acc + Head(items).quantity)

\* DiscountPolicy.ts:5-7  DiscountDecision
NoDiscount == [_tag |-> "NoDiscount"]
ApplyDiscount(percentage) == [_tag |-> "ApplyDiscount", percentage |-> percentage]

\* the policy deciding on the total (the rule of the comment at
\* DiscountPolicy.ts:11) rather than on the quantities
determineDiscountOnTotal(c) ==
    IF total(c) > DiscountThreshold * PercentBase
    THEN ApplyDiscount(DiscountPercentage)
    ELSE NoDiscount

\* the policy counting the items (cart.items.length), not their quantities
determineDiscountByLength(c) ==
    IF Len(c.items) > DiscountThreshold
    THEN ApplyDiscount(DiscountPercentage)
    ELSE NoDiscount

\* the policy with the threshold compared by >=
determineDiscountAtThreshold(c) ==
    IF reduceItemCount(c.items, 0) >= DiscountThreshold
    THEN ApplyDiscount(DiscountPercentage)
    ELSE NoDiscount

\* DiscountPolicy.ts:10-33
determineDiscount(c) ==
    LET itemCount == reduceItemCount(c.items, 0)
    IN  IF itemCount > DiscountThreshold
        THEN ApplyDiscount(DiscountPercentage)
        ELSE NoDiscount

\* ---------------------------------------------------------- the workflow
\* the final amount with the subtraction forgotten: the discount itself
discountedToDiscountAmount(t, decision) ==
    IF decision._tag = "ApplyDiscount"
    THEN USD((t * decision.percentage) \div PercentBase)
    ELSE t

\* the discount taken whatever the decision
discountedAlways(t, decision) ==
    USD(t - USD((t * DiscountPercentage) \div PercentBase))

\* the discount added to the total instead of taken off it
discountedSurcharge(t, decision) ==
    IF decision._tag = "ApplyDiscount"
    THEN LET discountAmount == USD((t * decision.percentage) \div PercentBase)
         IN  USD(t + discountAmount)
    ELSE t

\* checkout.ts:18-22  let finalAmount = total; if ApplyDiscount, total less
\* discountAmount = total * (percentage / 100)
discounted(t, decision) ==
    IF decision._tag = "ApplyDiscount"
    THEN LET discountAmount == USD((t * decision.percentage) \div PercentBase)
         IN  USD(t - discountAmount)
    ELSE t

\* the Exit of an Effect.gen whose yielded effect ended with `cause`: nothing
\* in checkout.ts catches, so the generator ends with that cause
Running == [_tag |-> "Running"]
Failure(cause) == [_tag |-> "Failure", cause |-> cause]
\* checkout.ts:32
Success(amount) == [_tag |-> "Success", status |-> "SUCCESS", amount |-> amount]

NotDecided == [_tag |-> "NotDecided"]
NotCharged == [_tag |-> "NotCharged"]
\* no domain op called directly yet; no second invocation
NotCalled == [op |-> "none"]
NoPeer == [pc |-> "absent"]
\* no truck at the dock; no loadPackage call made yet
NoTruck == [status |-> "Absent"]
NoLoad == [result |-> [kind |-> "None"]]

Init ==
    /\ cart \in Cart
    /\ pc = "log_start"
    /\ checkoutTotal = 0
    /\ discountDecision = NotDecided
    /\ finalAmount = 0
    /\ console = <<>>
    /\ charges = <<>>
    /\ chargeExit = NotCharged
    /\ steps = <<>>
    /\ exit = Running
    /\ opCall = NotCalled
    /\ peer = NoPeer
    /\ truck = NoTruck
    /\ loadCall = NoLoad

\* checkout.ts:10  yield* Console.log(`Starting checkout for Cart ${cart.id}`)
LogStart(ok) ==
    /\ pc = "log_start"
    /\ IF ok
       THEN /\ console' = Append(console, <<"Starting checkout for Cart", cart.id>>)
            /\ pc' = "compute_total"
            /\ exit' = exit
       ELSE /\ console' = console
            /\ pc' = "done"
            /\ exit' = Failure(ConsoleDefect)
    /\ UNCHANGED <<cart, checkoutTotal, discountDecision, finalAmount, charges,
                   chargeExit, steps>>
    /\ UNCHANGED <<opCall, peer, truck, loadCall>>

\* checkout.ts:13  const total = Cart.total(cart)
ComputeTotal ==
    /\ pc = "compute_total"
    /\ checkoutTotal' = total(cart)
    /\ steps' = Append(steps, "total")
    /\ pc' = "decide_discount"
    /\ UNCHANGED <<cart, discountDecision, finalAmount, console, charges,
                   chargeExit, exit>>
    /\ UNCHANGED <<opCall, peer, truck, loadCall>>

\* an early return for the empty cart: nothing to pay, nothing charged
DecideDiscountReturnsOnEmpty ==
    /\ pc = "decide_discount"
    /\ discountDecision' = determineDiscount(cart)
    /\ finalAmount' = discounted(checkoutTotal, discountDecision')
    /\ steps' = Append(steps, "discount")
    /\ IF isEmpty(cart)
       THEN pc' = "done" /\ exit' = Success(finalAmount')
       ELSE /\ pc' = IF discountDecision'._tag = "ApplyDiscount"
                     THEN "log_discount" ELSE "charge"
            /\ exit' = exit
    /\ UNCHANGED <<cart, checkoutTotal, console, charges, chargeExit>>
    /\ UNCHANGED <<opCall, peer, truck, loadCall>>

\* the decision taken and the charge next, the discount line left out
DecideDiscountSkipsLog ==
    /\ pc = "decide_discount"
    /\ discountDecision' = determineDiscount(cart)
    /\ finalAmount' = discounted(checkoutTotal, discountDecision')
    /\ steps' = Append(steps, "discount")
    /\ pc' = "charge"
    /\ UNCHANGED <<cart, checkoutTotal, console, charges, chargeExit, exit>>
    /\ UNCHANGED <<opCall, peer, truck, loadCall>>

\* checkout.ts:16-22  the decision and the final amount
DecideDiscount ==
    /\ pc = "decide_discount"
    /\ discountDecision' = determineDiscount(cart)
    /\ finalAmount' = discounted(checkoutTotal, discountDecision')
    /\ steps' = Append(steps, "discount")
    /\ pc' = IF discountDecision'._tag = "ApplyDiscount"
             THEN "log_discount" ELSE "charge"
    /\ UNCHANGED <<cart, checkoutTotal, console, charges, chargeExit, exit>>
    /\ UNCHANGED <<opCall, peer, truck, loadCall>>

\* checkout.ts:23  yield* Console.log(`Discount Applied: ${percentage}%`)
LogDiscount(ok) ==
    /\ pc = "log_discount"
    /\ IF ok
       THEN /\ console' = Append(console, <<"Discount Applied", discountDecision.percentage>>)
            /\ pc' = "charge"
            /\ exit' = exit
       ELSE /\ console' = console
            /\ pc' = "done"
            /\ exit' = Failure(ConsoleDefect)
    /\ UNCHANGED <<cart, checkoutTotal, discountDecision, finalAmount, charges,
                   chargeExit, steps>>
    /\ UNCHANGED <<opCall, peer, truck, loadCall>>

\* the charge forgotten: the workflow goes straight on to its last log
ChargeInvokeSkipped ==
    /\ pc = "charge"
    /\ steps' = Append(steps, "charge")
    /\ pc' = "log_charged"
    /\ UNCHANGED <<cart, checkoutTotal, discountDecision, finalAmount, console,
                   charges, chargeExit, exit>>
    /\ UNCHANGED <<opCall, peer, truck, loadCall>>

\* the charge issued twice
ChargeInvokeTwice ==
    /\ pc = "charge"
    /\ charges' = Append(Append(charges, finalAmount), finalAmount)
    /\ steps' = Append(steps, "charge")
    /\ pc' = "await_charge"
    /\ UNCHANGED <<cart, checkoutTotal, discountDecision, finalAmount, console,
                   chargeExit, exit>>
    /\ UNCHANGED <<opCall, peer, truck, loadCall>>

\* the "Charged" line written as the charge is issued, before its outcome
ChargeInvokeLogsCharged ==
    /\ pc = "charge"
    /\ charges' = Append(charges, finalAmount)
    /\ console' = Append(console, <<"Charged", finalAmount>>)
    /\ steps' = Append(steps, "charge")
    /\ pc' = "await_charge"
    /\ UNCHANGED <<cart, checkoutTotal, discountDecision, finalAmount,
                   chargeExit, exit>>
    /\ UNCHANGED <<opCall, peer, truck, loadCall>>

\* checkout.ts:27-28  const payment = yield* PaymentSvc; payment.charge(finalAmount)
ChargeInvoke ==
    /\ pc = "charge"
    /\ charges' = Append(charges, finalAmount)
    /\ steps' = Append(steps, "charge")
    /\ pc' = "await_charge"
    /\ UNCHANGED <<cart, checkoutTotal, discountDecision, finalAmount, console,
                   chargeExit, exit>>
    /\ UNCHANGED <<opCall, peer, truck, loadCall>>

\* checkout.ts:28  yield* resumes with the charge's success
ChargeSucceeds ==
    /\ pc = "await_charge"
    /\ chargeExit' = [_tag |-> "Success"]
    /\ pc' = "log_charged"
    /\ UNCHANGED <<cart, checkoutTotal, discountDecision, finalAmount, console,
                   charges, steps, exit>>
    /\ UNCHANGED <<opCall, peer, truck, loadCall>>

\* the failure caught (Effect.catchAll) and the workflow carried on
ChargeFailsCaught(e) ==
    /\ pc = "await_charge"
    /\ chargeExit' = Failure(e)
    /\ pc' = "log_charged"
    /\ UNCHANGED <<cart, checkoutTotal, discountDecision, finalAmount, console,
                   charges, steps, exit>>
    /\ UNCHANGED <<opCall, peer, truck, loadCall>>

\* the failure answered by a retry (Effect.retry): back to the charge step
ChargeFailsRetry(e) ==
    /\ pc = "await_charge"
    /\ chargeExit' = Failure(e)
    /\ pc' = "charge"
    /\ UNCHANGED <<cart, checkoutTotal, discountDecision, finalAmount, console,
                   charges, steps, exit>>
    /\ UNCHANGED <<opCall, peer, truck, loadCall>>

\* the failure answered by waiting for the same charge once more
ChargeFailsAwaitsAgain(e) ==
    /\ pc = "await_charge"
    /\ chargeExit' = Failure(e)
    /\ pc' = "await_charge"
    /\ UNCHANGED <<cart, checkoutTotal, discountDecision, finalAmount, console,
                   charges, steps, exit>>
    /\ UNCHANGED <<opCall, peer, truck, loadCall>>

\* checkout.ts:28  the charge fails with e: the generator ends with e
ChargeFails(e) ==
    /\ pc = "await_charge"
    /\ chargeExit' = Failure(e)
    /\ exit' = Failure(e)
    /\ pc' = "done"
    /\ UNCHANGED <<cart, checkoutTotal, discountDecision, finalAmount, console,
                   charges, steps>>
    /\ UNCHANGED <<opCall, peer, truck, loadCall>>

\* the cart emptied in place once it is paid for
LogChargedEmptiesCart(ok) ==
    /\ pc = "log_charged"
    /\ IF ok
       THEN /\ console' = Append(console, <<"Charged", finalAmount>>)
            /\ exit' = Success(finalAmount)
            /\ cart' = [cart EXCEPT !.items = <<>>]
       ELSE /\ console' = console
            /\ exit' = Failure(ConsoleDefect)
            /\ cart' = cart
    /\ pc' = "done"
    /\ UNCHANGED <<checkoutTotal, discountDecision, finalAmount, charges,
                   chargeExit, steps>>
    /\ UNCHANGED <<opCall, peer, truck, loadCall>>

\* checkout.ts:30-32  yield* Console.log(`Charged: ${finalAmount}`); return
LogCharged(ok) ==
    /\ pc = "log_charged"
    /\ IF ok
       THEN /\ console' = Append(console, <<"Charged", finalAmount>>)
            /\ exit' = Success(finalAmount)
       ELSE /\ console' = console
            /\ exit' = Failure(ConsoleDefect)
    /\ pc' = "done"
    /\ UNCHANGED <<cart, checkoutTotal, discountDecision, finalAmount, charges,
                   chargeExit, steps>>
    /\ UNCHANGED <<opCall, peer, truck, loadCall>>

Next ==
    \/ \E ok \in BOOLEAN : LogStart(ok)
    \/ ComputeTotal
    \/ DecideDiscount
    \/ \E ok \in BOOLEAN : LogDiscount(ok)
    \/ ChargeInvoke
    \/ ChargeSucceeds
    \/ \E e \in PaymentErrors : ChargeFails(e)
    \/ \E ok \in BOOLEAN : LogCharged(ok)

Spec == Init /\ [][Next]_vars

\* ------------------------------------------ checkout of dearer carts
\* Cart.ts:8  prices of 10, 20 and 30 currency units
ScenarioPrices == {PercentBase * p : p \in {10, 20, 30}}
ScenarioCart ==
    [id : CartIds,
     items : UNION {[1..n -> [price : ScenarioPrices, quantity : Quantities]] :
                        n \in 0..MaxItems}]

InitScenario ==
    /\ cart \in ScenarioCart
    /\ pc = "log_start"
    /\ checkoutTotal = 0
    /\ discountDecision = NotDecided
    /\ finalAmount = 0
    /\ console = <<>>
    /\ charges = <<>>
    /\ chargeExit = NotCharged
    /\ steps = <<>>
    /\ exit = Running
    /\ opCall = NotCalled
    /\ peer = NoPeer
    /\ truck = NoTruck
    /\ loadCall = NoLoad

SpecScenario == InitScenario /\ [][Next]_vars

\* ------------------------------------------ two concurrent invocations
\* checkout(cart) and checkout(peer.cart) run as two fibers: each has its own
\* generator frame (its locals), and both use the one Console and the one
\* PaymentSvc.  The interleaving is the most permissive one, a step of one
\* fiber between any two steps of the other: whatever the runtime schedules
\* is one of these behaviours.
own == <<cart, pc, checkoutTotal, discountDecision, finalAmount, charges,
         chargeExit, steps, exit, opCall, truck, loadCall>>

ConcItems == {i \in CartItem : i.price = PercentBase /\ i.quantity \in {1, MaxQty}}
ConcCart(id) == [id : {id}, items : UNION {[1..n -> ConcItems] : n \in 0..MaxItems}]

\* checkout.ts:8  the frame of a second invocation, on cart c
PeerFrame(c) ==
    [cart |-> c, pc |-> "log_start", checkoutTotal |-> 0,
     discountDecision |-> NotDecided, finalAmount |-> 0, charges |-> <<>>,
     chargeExit |-> NotCharged, exit |-> Running]

InitConc ==
    /\ cart \in ConcCart("cart-a")
    /\ pc = "log_start"
    /\ checkoutTotal = 0
    /\ discountDecision = NotDecided
    /\ finalAmount = 0
    /\ console = <<>>
    /\ charges = <<>>
    /\ chargeExit = NotCharged
    /\ steps = <<>>
    /\ exit = Running
    /\ opCall = NotCalled
    /\ \E c \in ConcCart("cart-b") : peer = PeerFrame(c)
    /\ truck = NoTruck
    /\ loadCall = NoLoad

\* checkout.ts:10
PeerLogStart(ok) ==
    /\ peer.pc = "log_start"
    /\ IF ok
       THEN /\ console' = Append(console, <<"Starting checkout for Cart", peer.cart.id>>)
            /\ peer' = [peer EXCEPT !.pc = "compute_total"]
       ELSE /\ console' = console
            /\ peer' = [peer EXCEPT !.pc = "done", !.exit = Failure(ConsoleDefect)]
    /\ UNCHANGED own

\* checkout.ts:13
PeerComputeTotal ==
    /\ peer.pc = "compute_total"
    /\ peer' = [peer EXCEPT !.checkoutTotal = total(peer.cart),
                            !.pc = "decide_discount"]
    /\ UNCHANGED <<own, console>>

\* finalAmount kept in a variable of the module, not of the generator: the
\* second invocation's amount lands in the first one's
PeerDecideDiscountShared ==
    /\ peer.pc = "decide_discount"
    /\ LET decision == determineDiscount(peer.cart)
       IN  /\ peer' = [peer EXCEPT
                           !.discountDecision = decision,
                           !.finalAmount = discounted(peer.checkoutTotal, decision),
                           !.pc = IF decision._tag = "ApplyDiscount"
                                  THEN "log_discount" ELSE "charge"]
           /\ finalAmount' = discounted(peer.checkoutTotal, decision)
    /\ UNCHANGED <<cart, pc, checkoutTotal, discountDecision, charges,
                   chargeExit, steps, exit, opCall, console, truck, loadCall>>

\* checkout.ts:16-22
PeerDecideDiscount ==
    /\ peer.pc = "decide_discount"
    /\ LET decision == determineDiscount(peer.cart)
       IN  peer' = [peer EXCEPT
                       !.discountDecision = decision,
                       !.finalAmount = discounted(peer.checkoutTotal, decision),
                       !.pc = IF decision._tag = "ApplyDiscount"
                              THEN "log_discount" ELSE "charge"]
    /\ UNCHANGED <<own, console>>

\* checkout.ts:23
PeerLogDiscount(ok) ==
    /\ peer.pc = "log_discount"
    /\ IF ok
       THEN /\ console' = Append(console, <<"Discount Applied", peer.discountDecision.percentage>>)
            /\ peer' = [peer EXCEPT !.pc = "charge"]
       ELSE /\ console' = console
            /\ peer' = [peer EXCEPT !.pc = "done", !.exit = Failure(ConsoleDefect)]
    /\ UNCHANGED own

\* checkout.ts:27-28
PeerChargeInvoke ==
    /\ peer.pc = "charge"
    /\ peer' = [peer EXCEPT !.charges = Append(peer.charges, peer.finalAmount),
                            !.pc = "await_charge"]
    /\ UNCHANGED <<own, console>>

\* checkout.ts:28
PeerChargeSucceeds ==
    /\ peer.pc = "await_charge"
    /\ peer' = [peer EXCEPT !.chargeExit = [_tag |-> "Success"],
                            !.pc = "log_charged"]
    /\ UNCHANGED <<own, console>>

\* checkout.ts:28
PeerChargeFails(e) ==
    /\ peer.pc = "await_charge"
    /\ peer' = [peer EXCEPT !.chargeExit = Failure(e), !.exit = Failure(e),
                            !.pc = "done"]
    /\ UNCHANGED <<own, console>>

\* checkout.ts:30-32
PeerLogCharged(ok) ==
    /\ peer.pc = "log_charged"
    /\ IF ok
       THEN /\ console' = Append(console, <<"Charged", peer.finalAmount>>)
            /\ peer' = [peer EXCEPT !.pc = "done", !.exit = Success(peer.finalAmount)]
       ELSE /\ console' = console
            /\ peer' = [peer EXCEPT !.pc = "done", !.exit = Failure(ConsoleDefect)]
    /\ UNCHANGED own

NextConc ==
    \/ Next
    \/ \E ok \in BOOLEAN : PeerLogStart(ok)
    \/ PeerComputeTotal
    \/ PeerDecideDiscount
    \/ \E ok \in BOOLEAN : PeerLogDiscount(ok)
    \/ PeerChargeInvoke
    \/ PeerChargeSucceeds
    \/ \E e \in PaymentErrors : PeerChargeFails(e)
    \/ \E ok \in BOOLEAN : PeerLogCharged(ok)

SpecConc == InitConc /\ [][NextConc]_vars

\* ------------------------------------------- one invocation run to its end
\* Effect.runPromise runs the fiber of checkout until it ends: a step that can
\* be taken is taken, and the charge of PaymentSvc answers, with success or
\* with a failure.  Both are the weak fairness of Next.
LiveCart == ConcCart("cart-a") \cup ConcCart("cart-b")

InitLive ==
    /\ cart \in LiveCart
    /\ pc = "log_start"
    /\ checkoutTotal = 0
    /\ discountDecision = NotDecided
    /\ finalAmount = 0
    /\ console = <<>>
    /\ charges = <<>>
    /\ chargeExit = NotCharged
    /\ steps = <<>>
    /\ exit = Running
    /\ opCall = NotCalled
    /\ peer = NoPeer
    /\ truck = NoTruck
    /\ loadCall = NoLoad

SpecLive == InitLive /\ [][Next]_vars /\ WF_vars(Next)

\* ------------------------------------------- the domain ops called directly
\* everything of the state but opCall
allButOpCall == <<cart, pc, checkoutTotal, discountDecision, finalAmount, console,
                  charges, chargeExit, steps, exit, peer,
                   truck, loadCall>>

\* total writing a line to the console on its way
CallTotalLogging ==
    /\ opCall' = [op |-> "total", value |-> total(cart)]
    /\ console' = Append(console, <<"Total", total(cart)>>)
    /\ UNCHANGED <<cart, pc, checkoutTotal, discountDecision, finalAmount,
                   charges, chargeExit, steps, exit, peer,
                   truck, loadCall>>

\* Cart.ts:22-27  a caller evaluates total(cart)
CallTotal ==
    /\ opCall' = [op |-> "total", value |-> total(cart)]
    /\ UNCHANGED allButOpCall

\* Cart.ts:29  a caller evaluates isEmpty(cart)
CallIsEmpty ==
    /\ opCall' = [op |-> "isEmpty", value |-> isEmpty(cart)]
    /\ UNCHANGED allButOpCall

\* DiscountPolicy.ts:10-33  a caller evaluates determineDiscount(cart)
CallDetermineDiscount ==
    /\ opCall' = [op |-> "determineDiscount", value |-> determineDiscount(cart)]
    /\ UNCHANGED allButOpCall

NextOps ==
    \/ CallTotal
    \/ CallIsEmpty
    \/ CallDetermineDiscount

SpecOps == Init /\ [][NextOps]_vars

\* ------------------------------------------------ carts grown by addItem
\* the items a caller appends: a price that is not negative and a positive
\* quantity
AppendedItems == {i \in CartItem : i.price >= 0 /\ i.quantity > 0}

\* the new cart holding the new item alone
addItemReplacing(c, item) == [c EXCEPT !.items = <<item>>]

\* [Immutable-Data]  ({ ...cart, items: [...cart.items, item] })
addItem(c, item) == [c EXCEPT !.items = Append(c.items, item)]

\* a caller replaces its cart by addItem(cart, item); carts grow to one item
\* more than the largest cart a checkout is given
AddItem(item) ==
    /\ Len(cart.items) <= MaxItems
    /\ cart' = addItem(cart, item)
    /\ opCall' = [op |-> "addItem", value |-> item]
    /\ UNCHANGED <<pc, checkoutTotal, discountDecision, finalAmount, console,
                   charges, chargeExit, steps, exit, peer,
                   truck, loadCall>>

NextAddItem == \E item \in AppendedItems : AddItem(item)

SpecAddItem == Init /\ [][NextAddItem]_vars

\* ------------------------------------------------------ loading a truck
\* full-example.md  type LoadFailed
LoadFailed(reason, t, pkg) ==
    [kind |-> "Failure", reason |-> reason, truckId |-> t.id, packageId |-> pkg.id]

\* full-example.md  type PackageLoaded (its timestamp, the time of the call,
\* is left out)
PackageLoaded(t, pkg, newTruck) ==
    [kind |-> "Success", truckId |-> t.id, packageId |-> pkg.id,
     newTruckState |-> newTruck]

\* loadPackage with the volume never compared
loadPackageNoVolumeCheck(t, pkg) ==
    LET newWeight == t.currentLoad.totalWeight + pkg.weight
        newVolume == t.currentLoad.totalVolume + pkg.volume
    IN  IF newWeight > t.capacity.maxWeight
        THEN LoadFailed("OverWeight", t, pkg)
        ELSE PackageLoaded(t, pkg,
                 [t EXCEPT !.currentLoad = [totalWeight |-> newWeight,
                                            totalVolume |-> newVolume],
                           !.manifest = Append(t.manifest, pkg.id)])

\* loadPackage with the volume compared first
loadPackageVolumeFirst(t, pkg) ==
    LET newWeight == t.currentLoad.totalWeight + pkg.weight
        newVolume == t.currentLoad.totalVolume + pkg.volume
    IN  IF newVolume > t.capacity.maxVolume
        THEN LoadFailed("OverVolume", t, pkg)
        ELSE IF newWeight > t.capacity.maxWeight
        THEN LoadFailed("OverWeight", t, pkg)
        ELSE PackageLoaded(t, pkg,
                 [t EXCEPT !.currentLoad = [totalWeight |-> newWeight,
                                            totalVolume |-> newVolume],
                           !.manifest = Append(t.manifest, pkg.id)])

\* full-example.md:129-151
loadPackage(t, pkg) ==
    LET newWeight == t.currentLoad.totalWeight + pkg.weight
        newVolume == t.currentLoad.totalVolume + pkg.volume
    IN  IF newWeight > t.capacity.maxWeight
        THEN LoadFailed("OverWeight", t, pkg)
        ELSE IF newVolume > t.capacity.maxVolume
        THEN LoadFailed("OverVolume", t, pkg)
        ELSE PackageLoaded(t, pkg,
                 [t EXCEPT !.currentLoad = [totalWeight |-> newWeight,
                                            totalVolume |-> newVolume],
                           !.manifest = Append(t.manifest, pkg.id)])

\* a LoadingTruck at the dock, its load within its capacity; no checkout runs
InitTruck ==
    /\ \E id \in TruckIds, c \in Capacity :
         \E w \in 0..c.maxWeight, v \in 0..c.maxVolume :
           truck = [status |-> "Loading", id |-> id, capacity |-> c,
                    currentLoad |-> [totalWeight |-> w, totalVolume |-> v],
                    manifest |-> <<>>]
    /\ loadCall = NoLoad
    /\ cart = [id |-> "cart-a", items |-> <<>>]
    /\ pc = "log_start"
    /\ checkoutTotal = 0
    /\ discountDecision = NotDecided
    /\ finalAmount = 0
    /\ console = <<>>
    /\ charges = <<>>
    /\ chargeExit = NotCharged
    /\ steps = <<>>
    /\ exit = Running
    /\ opCall = NotCalled
    /\ peer = NoPeer

\* a worker calls loadPackage(truck, pkg) and carries on with the
\* newTruckState of a Success; a Failure leaves the truck as it was
LoadPackage(pkg) ==
    /\ Len(truck.manifest) < MaxManifest
    /\ LET result == loadPackage(truck, pkg)
       IN  /\ loadCall' = [truck |-> truck, package |-> pkg, result |-> result]
           /\ truck' = IF result.kind = "Success"
                       THEN result.newTruckState
                       ELSE truck
    /\ UNCHANGED <<cart, pc, checkoutTotal, discountDecision, finalAmount, console,
                   charges, chargeExit, steps, exit, opCall, peer>>

NextTruck == \E pkg \in Package : LoadPackage(pkg)

SpecTruck == InitTruck /\ [][NextTruck]_vars

\* ------------------------------------------------------------- the claims
\* the sum of price * quantity over the first n items, from the last down
RECURSIVE SumPriceQuantity(_, _)
SumPriceQuantity(items, n) ==
    IF n = 0 THEN 0
    ELSE items[n].price * items[n].quantity + SumPriceQuantity(items, n - 1)

\* the sum of the quantities of the first n items, from the last down
RECURSIVE SumQuantity(_, _)
SumQuantity(items, n) ==
    IF n = 0 THEN 0 ELSE items[n].quantity + SumQuantity(items, n - 1)

QuantitySum == SumQuantity(cart.items, Len(cart.items))

\* the reorderings of a sequence of n items
Permutations(n) ==
    {f \in [1..n -> 1..n] : \A i, j \in 1..n : f[i] = f[j] => i = j}
Reordered(c, f) == [c EXCEPT !.items = [i \in DOMAIN c.items |-> c.items[f[i]]]]

TotalComputed == steps # <<>>
Decided == discountDecision # NotDecided
Charged == charges # <<>>

\* C1: once checkout has computed Cart.total(cart), the value is the sum
\* over the cart's items of price * quantity, each item counted once and
\* nothing else added.
C1_TotalIsSumOfPriceTimesQuantity ==
    TotalComputed =>
        checkoutTotal = SumPriceQuantity(cart.items, Len(cart.items))

C1_Witness ==
    /\ TotalComputed
    /\ Len(cart.items) = 2
    /\ cart.items[1] # cart.items[2]
    /\ \A i \in 1..2 : cart.items[i].price > 0 /\ cart.items[i].quantity > 1

\* C2: determineDiscount returns ApplyDiscount with percentage 10 when the
\* quantities of the cart sum to more than 5 and NoDiscount in every other
\* case, a sum of exactly 5 and the empty cart included.
C2_DiscountRule ==
    Decided =>
        discountDecision =
            IF QuantitySum > 5
            THEN [_tag |-> "ApplyDiscount", percentage |-> 10]
            ELSE [_tag |-> "NoDiscount"]

C2_Witness ==
    /\ Decided
    /\ QuantitySum = 5
    /\ discountDecision._tag = "NoDiscount"

\* C3: the amount passed to payment.charge is total * (1 - percentage/100)
\* when the decision is ApplyDiscount and exactly total when it is
\* NoDiscount.
C3_ChargedAmount ==
    Charged =>
        /\ discountDecision._tag = "ApplyDiscount" =>
               100 * charges[1] = checkoutTotal * (100 - discountDecision.percentage)
        /\ discountDecision._tag = "NoDiscount" => charges[1] = checkoutTotal

C3_Witness ==
    /\ Charged
    /\ discountDecision._tag = "ApplyDiscount"
    /\ checkoutTotal > 0
    /\ charges[1] < checkoutTotal

\* C4: when the charge fails, checkout ends with the very failure the
\* payment collaborator gave and never with a SUCCESS result.
C4_ChargeFailurePropagates ==
    chargeExit._tag = "Failure" =>
        /\ pc = "done"
        /\ exit = chargeExit
        /\ exit._tag # "Success"

C4_Witness ==
    /\ chargeExit = Failure("GatewayTimeout")
    /\ exit = Failure("GatewayTimeout")
    /\ pc = "done"

\* C5: whenever checkout returns a result it is {status: "SUCCESS", amount:
\* finalAmount}, charge was invoked before and succeeded, and the amount
\* returned is the amount charge was called with.
C5_ResultOnlyAfterCharge ==
    exit._tag = "Success" =>
        /\ exit.status = "SUCCESS"
        /\ exit.amount = finalAmount
        /\ Charged
        /\ chargeExit._tag = "Success"
        /\ exit.amount = charges[Len(charges)]

C5_Witness ==
    /\ exit._tag = "Success"
    /\ discountDecision._tag = "ApplyDiscount"
    /\ exit.amount > 0
    /\ charges = <<exit.amount>>

\* C6: in one checkout invocation payment.charge is invoked at most once,
\* whether it succeeds or fails: no retry, no compensation.
C6_ChargedAtMostOnce == Len(charges) <= 1

C6_Witness ==
    /\ pc = "done"
    /\ chargeExit._tag = "Failure"
    /\ Len(charges) = 1

\* C7: the steps of checkout are entered in the order total, discount
\* decision and final amount, charge; none is entered before the one before
\* it is complete and none is entered twice.
StepOrder == <<"total", "discount", "charge">>

C7_StrictlyForward ==
    /\ Len(steps) <= Len(StepOrder)
    /\ \A i \in DOMAIN steps : steps[i] = StepOrder[i]
    /\ Len(steps) >= 2 => Decided
    /\ Charged => Len(steps) = 3
    /\ exit._tag = "Success" => steps = StepOrder

C7_Witness ==
    /\ steps = StepOrder
    /\ pc = "done"
    /\ chargeExit._tag = "Failure"

\* C8: a failure of the logging collaborator is not propagated: checkout
\* still charges the payment collaborator and, when the charge succeeds,
\* returns the SUCCESS result.
C8_LoggingFailureNotPropagated ==
    pc = "done" =>
        /\ Charged
        /\ chargeExit._tag = "Success" => exit._tag = "Success"

\* C9: for all carts, total(cart) >= 0.
C9_TotalNonNegative == TotalComputed => checkoutTotal >= 0

ItemIds == {"item-1", "item-2"}
ItemNames == {"apple", "pear"}
SameQuantities(c) ==
    {[id |-> cid,
      items |-> [i \in DOMAIN c.items |->
                    [id |-> v[i][1], name |-> v[i][2], price |-> v[i][3],
                     quantity |-> c.items[i].quantity]]] :
        cid \in CartIds,
        v \in [DOMAIN c.items -> ItemIds \X ItemNames \X Prices]}
PricedZero(c) == c.id = "cart-a" /\ \A i \in DOMAIN c.items : c.items[i].price = 0

C12_DecisionDependsOnQuantitiesOnly ==
    (pc \in {"log_discount", "charge"} /\ PricedZero(cart)) =>
        \A c \in SameQuantities(cart) : determineDiscount(c) = discountDecision

C12_Witness ==
    /\ pc = "log_discount"
    /\ PricedZero(cart)
    /\ discountDecision._tag = "ApplyDiscount"

\* C13: checkout never alters the cart it is given: no step of it, on the
\* success path or on a failure path, changes the cart's id or its items.
C13_CartNeverAltered == [][cart' = cart]_vars

C13_Witness ==
    /\ pc = "done"
    /\ exit._tag = "Success"
    /\ cart.items # <<>>

\* C14: for the empty cart total is 0, the decision is NoDiscount, and
\* checkout does not stop short of the payment: once the decision is taken
\* the charge is the next step, and it is invoked with exactly 0.
C14_EmptyCart ==
    cart.items = <<>> =>
        /\ TotalComputed => checkoutTotal = 0
        /\ Decided =>
            /\ discountDecision = [_tag |-> "NoDiscount"]
            /\ pc = "charge" \/ charges = <<0>>
        /\ exit._tag = "Success" => exit.amount = 0

C14_Witness ==
    /\ cart.items = <<>>
    /\ charges = <<0>>
    /\ discountDecision._tag = "NoDiscount"
    /\ exit._tag = "Success"

\* C17: isEmpty(cart) is true iff the cart's item sequence has zero length.
C17_IsEmptyIffNoItems ==
    opCall.op = "isEmpty" => (opCall.value = TRUE <=> DOMAIN cart.items = {})

C17_Witness ==
    /\ opCall.op = "isEmpty"
    /\ opCall.value = FALSE
    /\ Len(cart.items) = 1

\* C20: evaluating total, isEmpty or determineDiscount never invokes the
\* payment collaborator or the logging sink and never changes the cart.
C20_OpsArePure ==
    [][cart' = cart /\ console' = console /\ charges' = charges
       /\ chargeExit' = chargeExit]_vars

C20_Witness ==
    /\ opCall.op = "total"
    /\ opCall.value > 0
    /\ console = <<>>
    /\ charges = <<>>

\* C15: for every cart whose quantities sum to 6 and whose total is 120,
\* determineDiscount returns ApplyDiscount with percentage 10 and the amount
\* checkout charges and returns is 108 (amounts in hundredths below).
C15_Precondition ==
    QuantitySum = 6 /\ SumPriceQuantity(cart.items, Len(cart.items)) = 12000

C15_SixItemsFor120 ==
    C15_Precondition =>
        /\ Decided => discountDecision = [_tag |-> "ApplyDiscount", percentage |-> 10]
        /\ Charged => charges = <<10800>>
        /\ exit._tag = "Success" => exit.amount = 10800

C15_Witness ==
    /\ C15_Precondition
    /\ charges = <<10800>>
    /\ exit._tag = "Success"
    /\ exit.amount = 10800

\* C16: for every cart whose quantities sum to 5 and whose total is 50,
\* determineDiscount returns NoDiscount and the amount checkout charges and
\* returns is 50.
C16_Precondition ==
    QuantitySum = 5 /\ SumPriceQuantity(cart.items, Len(cart.items)) = 5000

C16_FiveItemsFor50 ==
    C16_Precondition =>
        /\ Decided => discountDecision = [_tag |-> "NoDiscount"]
        /\ Charged => charges = <<5000>>
        /\ exit._tag = "Success" => exit.amount = 5000

C16_Witness ==
    /\ C16_Precondition
    /\ charges = <<5000>>
    /\ exit._tag = "Success"
    /\ exit.amount = 5000

\* C18: in any interleaving of two concurrent checkout calls on different
\* carts, each call takes its decision from its own cart only and charges
\* and returns the amount it would if it ran alone.
AloneDecision(c) ==
    IF SumQuantity(c.items, Len(c.items)) > 5
    THEN [_tag |-> "ApplyDiscount", percentage |-> 10]
    ELSE [_tag |-> "NoDiscount"]
AloneAmount(c) ==
    LET t == SumPriceQuantity(c.items, Len(c.items))
    IN  IF SumQuantity(c.items, Len(c.items)) > 5 THEN (t * 90) \div 100 ELSE t

C18_InvocationsIsolated ==
    /\ Decided => discountDecision = AloneDecision(cart)
    /\ Charged => charges = <<AloneAmount(cart)>>
    /\ exit._tag = "Success" => exit.amount = AloneAmount(cart)
    /\ peer.discountDecision # NotDecided =>
           peer.discountDecision = AloneDecision(peer.cart)
    /\ peer.charges # <<>> => peer.charges = <<AloneAmount(peer.cart)>>
    /\ peer.exit._tag = "Success" => peer.exit.amount = AloneAmount(peer.cart)

C18_Witness ==
    /\ pc = "await_charge"
    /\ peer.pc = "await_charge"
    /\ discountDecision._tag = "ApplyDiscount"
    /\ peer.discountDecision._tag = "NoDiscount"
    /\ charges[1] # peer.charges[1]

\* the console holds a line of this kind
Logged(kind) == \E i \in DOMAIN console : console[i][1] = kind

\* C21: the "Starting checkout" line is written before the charge is
\* invoked, and the "Charged" line is written only after the charge has
\* succeeded: never in an invocation whose charge fails or is never reached.
C21_LogsAtFixedPoints ==
    /\ Charged => /\ console # <<>>
                  /\ console[1] = <<"Starting checkout for Cart", cart.id>>
    /\ Logged("Charged") => /\ Charged
                            /\ chargeExit = [_tag |-> "Success"]
    /\ chargeExit._tag = "Failure" => ~Logged("Charged")

C21_Witness ==
    /\ pc = "done"
    /\ Logged("Charged")
    /\ console[1][1] = "Starting checkout for Cart"
    /\ chargeExit = [_tag |-> "Success"]

\* C22: the "Discount Applied" line is written only in an invocation whose
\* decision is ApplyDiscount, an invocation that reaches the charge with an
\* ApplyDiscount decision has written it, and it is written before the
\* charge is invoked (it is there in every state that has a charge).
C22_DiscountLineIffApplied ==
    /\ Logged("Discount Applied") =>
           /\ discountDecision._tag = "ApplyDiscount"
           /\ discountDecision = determineDiscount(cart)
           /\ console[2] = <<"Discount Applied", discountDecision.percentage>>
    /\ (pc = "charge" \/ Charged) =>
           (Logged("Discount Applied") <=> discountDecision._tag = "ApplyDiscount")
    /\ pc = "log_discount" => ~Charged

C22_Witness ==
    /\ pc = "await_charge"
    /\ discountDecision._tag = "ApplyDiscount"
    /\ Logged("Discount Applied")
    /\ Len(console) = 2

\* C23: for a cart whose total is not negative the amount charged lies
\* between 0 and the total, and is less than the total exactly when the
\* decision is ApplyDiscount and the total is more than 0.
C23_FinalAmountWithinTotal ==
    (Decided /\ checkoutTotal >= 0) =>
        /\ 0 <= finalAmount
        /\ finalAmount <= checkoutTotal
        /\ finalAmount < checkoutTotal <=>
               (discountDecision._tag = "ApplyDiscount" /\ checkoutTotal > 0)
        /\ Charged => charges[1] = finalAmount

C23_Witness ==
    /\ Charged
    /\ discountDecision._tag = "ApplyDiscount"
    /\ checkoutTotal > 0
    /\ charges[1] < checkoutTotal
    /\ charges[1] > 0

\* C24: when a cart is replaced by the cart with one more item, of a price
\* that is not negative and a positive quantity, the total does not decrease
\* and an ApplyDiscount decision does not go back to NoDiscount.
C24_AddItemMonotone ==
    [][/\ total(cart') >= total(cart)
       /\ determineDiscount(cart)._tag = "ApplyDiscount" =>
              determineDiscount(cart')._tag = "ApplyDiscount"]_vars

C24_Witness ==
    /\ opCall.op = "addItem"
    /\ Len(cart.items) = MaxItems + 1
    /\ determineDiscount(cart)._tag = "ApplyDiscount"
    /\ determineDiscount([cart EXCEPT !.items = SubSeq(cart.items, 1, MaxItems)])._tag
           = "ApplyDiscount"
    /\ total(cart) > total([cart EXCEPT !.items = SubSeq(cart.items, 1, MaxItems)])

\* C25: an invocation of checkout whose steps are run and whose charge is
\* answered ends, with the SUCCESS result or with a failure that reached
\* its caller.
C25_Terminates ==
    <>(/\ pc = "done"
       /\ \/ exit = Success(finalAmount)
          \/ exit._tag = "Failure")

C25_Witness ==
    /\ pc = "done"
    /\ chargeExit._tag = "Failure"
    /\ exit = chargeExit
    /\ discountDecision._tag = "ApplyDiscount"

\* C26: a truck that starts within its capacity and is replaced by the
\* newTruckState of every Success never weighs more than maxWeight and never
\* holds more than maxVolume.
C26_TruckWithinCapacity ==
    truck # NoTruck =>
        /\ truck.currentLoad.totalWeight <= truck.capacity.maxWeight
        /\ truck.currentLoad.totalVolume <= truck.capacity.maxVolume

C26_Witness ==
    /\ loadCall.result.kind = "Failure"
    /\ loadCall.result.reason = "OverVolume"
    /\ Len(truck.manifest) >= 2
    /\ truck.currentLoad.totalWeight = truck.capacity.maxWeight
    /\ truck.currentLoad.totalVolume = truck.capacity.maxVolume

\* C27: loadPackage answers Failure exactly when the package takes the
\* weight or the volume over the capacity, OverWeight when the weight does,
\* and a Failure has no new truck state; otherwise it answers Success with a
\* truck whose load is the old load plus the package's weight and volume and
\* whose manifest is the old one with the package id appended.  The truck
\* passed in is as it was.
C27_LoadResult ==
    loadCall # NoLoad =>
        LET t == loadCall.truck
            pkg == loadCall.package
            r == loadCall.result
            overWeight == t.currentLoad.totalWeight + pkg.weight > t.capacity.maxWeight
            overVolume == t.currentLoad.totalVolume + pkg.volume > t.capacity.maxVolume
        IN  /\ r.kind \in {"Success", "Failure"}
            /\ r.kind = "Failure" <=> (overWeight \/ overVolume)
            /\ r.kind = "Failure" =>
                   /\ r.reason = IF overWeight THEN "OverWeight" ELSE "OverVolume"
                   /\ DOMAIN r = {"kind", "reason", "truckId", "packageId"}
                   /\ truck = t
            /\ r.kind = "Success" =>
                   /\ r.newTruckState.currentLoad =
                          [totalWeight |-> t.currentLoad.totalWeight + pkg.weight,
                           totalVolume |-> t.currentLoad.totalVolume + pkg.volume]
                   /\ r.newTruckState.manifest = Append(t.manifest, pkg.id)
                   /\ r.newTruckState.id = t.id
                   /\ r.newTruckState.status = "Loading"
                   /\ r.newTruckState.capacity = t.capacity
                   /\ truck = r.newTruckState
            /\ r.truckId = t.id
            /\ r.packageId = pkg.id

C27_Witness ==
    /\ loadCall # NoLoad
    /\ loadCall.result.kind = "Failure"
    /\ loadCall.result.reason = "OverWeight"
    /\ loadCall.truck.currentLoad.totalVolume + loadCall.package.volume
           > loadCall.truck.capacity.maxVolume
    /\ loadCall.truck.manifest # <<>>

=============================================================================
